---- MODULE Spec2Model ----
(***************************************************************************)
(* HR-Mel: basis construction, per-band encode/decode, the extraction      *)
(* entry point and the multi-file analysis entry point.                    *)
(*                                                                         *)
(* Numbers.  Frequencies are integer Hz and the sample rates are even, so  *)
(* that target_sr / 2.0 is the integer sr \div 2.  A matrix element is a   *)
(* term of exact real arithmetic on x >= 0: an atom (0 is the real 0, any  *)
(* other atom a distinct positive real) under a stack of pointwise         *)
(* functions, where a function cancels against its inverse and every       *)
(* function used here fixes 0.  Floating-point rounding is not modelled.   *)
(* Arrays live in a heap (a sequence of matrices, an array is its index),  *)
(* so that copying and writing in place are different things.              *)
(***************************************************************************)
EXTENDS Integers, Sequences, FiniteSets, TLC

\* ---------------------------------------------------------------- bounds
MaxBands == 2        \* longest band set passed to hr_mel / encode_hr
MaxRows == 3         \* most rows of a matrix handed directly to encode_hr
NumAtoms == 3        \* distinct element values 0 .. NumAtoms-1
MaxDirEntries == 4   \* most paths in the input directory
NumContents == 2     \* distinct waveform contents 0 .. NumContents-1

\* ------------------------------------------------------ program constants
DEFAULT_SR == 44100
N_FFT == 2048
HOP_LENGTH == 441
WIN_LENGTH == 2048
DEFAULT_FMAX == 20000

DEFAULT_BANDS ==
  << [fmin |-> 0,    fmax |-> 1500,         bins |-> 40, compression |-> "log1p"],
     [fmin |-> 1500, fmax |-> 6000,         bins |-> 32, compression |-> "log1p"],
     [fmin |-> 6000, fmax |-> DEFAULT_FMAX, bins |-> 24, compression |-> "sqrt_log1p"] >>

VALID_COMPRESSIONS == {"log1p", "sqrt_log1p", "pow075"}

\* ----------------------------------------------------------------- inputs
SampleRates == {16000, DEFAULT_SR}
FmaxArgs == {7000, DEFAULT_FMAX, 30000}
YLens == {100, 500}              \* samples of a waveform handed to hr_mel
FileLens == {44100, 50000}       \* samples of a loaded (resampled) audio file

\* Bands a caller may put in a band set: valid ones with each tag, one whose
\* fmax is above every ceiling, and one of each kind of invalid band.
BandPool ==
  { [fmin |-> 0,    fmax |-> 1500,  bins |-> 2,  compression |-> "log1p"],
    [fmin |-> 1500, fmax |-> 6000,  bins |-> 1,  compression |-> "sqrt_log1p"],
    [fmin |-> 6000, fmax |-> 30000, bins |-> 1,  compression |-> "pow075"],
    [fmin |-> 0,    fmax |-> 1500,  bins |-> 1,  compression |-> "tanh"],
    [fmin |-> 0,    fmax |-> 1500,  bins |-> 0,  compression |-> "log1p"],
    [fmin |-> 0,    fmax |-> 1500,  bins |-> -1, compression |-> "log1p"],
    [fmin |-> -100, fmax |-> 1500,  bins |-> 1,  compression |-> "log1p"],
    [fmin |-> 6000, fmax |-> 1500,  bins |-> 1,  compression |-> "pow075"] }

BandSets == UNION { [1..n -> BandPool] : n \in 0..MaxBands }

Min(a, b) == IF a <= b THEN a ELSE b

\* -------------------------------------------------- exact real arithmetic
Inverse(f) ==
  CASE f = "log1p"  -> "expm1"
    [] f = "expm1"  -> "log1p"
    [] f = "sqrt"   -> "square"
    [] f = "square" -> "sqrt"
    [] f = "pow075" -> "pow_inv075"
    [] f = "pow_inv075" -> "pow075"

Atom(n) == [a |-> n, ops |-> <<>>]

\* f(v) for one of the pointwise functions above, on v >= 0.
Apply(f, v) ==
  IF v.a = 0 /\ v.ops = <<>> THEN v
  ELSE IF v.ops # <<>> /\ v.ops[Len(v.ops)] = Inverse(f)
       THEN [v EXCEPT !.ops = SubSeq(v.ops, 1, Len(v.ops) - 1)]
       ELSE [v EXCEPT !.ops = Append(v.ops, f)]

\* A function applied elementwise to a matrix (a sequence of rows).
MapMatrix(f, m) == [r \in 1..Len(m) |-> [t \in 1..Len(m[r]) |-> Apply(f, m[r][t])]]

Returned(v) == [exc |-> "none", val |-> v]
Raised(e) == [exc |-> e, val |-> <<>>]

\* ------------------------------------------------------- encode / decode
encode_band(values, compression) ==
  IF compression = "log1p" THEN Returned(MapMatrix("log1p", values))
  ELSE IF compression = "sqrt_log1p"
       THEN Returned(MapMatrix("sqrt", MapMatrix("log1p", values)))
  ELSE IF compression = "pow075" THEN Returned(MapMatrix("pow075", values))
  ELSE Raised("ValueError: Unsupported compression")

\* decode_band whose sqrt_log1p branch forgets to square: np.expm1(values).
decode_band_NoSquare(values, compression) ==
  IF compression = "log1p" THEN Returned(MapMatrix("expm1", values))
  ELSE IF compression = "sqrt_log1p" THEN Returned(MapMatrix("expm1", values))
  ELSE IF compression = "pow075" THEN Returned(MapMatrix("pow_inv075", values))
  ELSE Raised("ValueError: Unsupported compression")

decode_band(values, compression) ==
  IF compression = "log1p" THEN Returned(MapMatrix("expm1", values))
  ELSE IF compression = "sqrt_log1p"
       THEN Returned(MapMatrix("expm1", MapMatrix("square", values)))
  ELSE IF compression = "pow075" THEN Returned(MapMatrix("pow_inv075", values))
  ELSE Raised("ValueError: Unsupported compression")

\* numpy basic slicing of rows with slice(start, stop), 0 <= start <= stop:
\* the bounds are clipped to the array's row count.
GetSlice(m, sl) == SubSeq(m, Min(sl.start, Len(m)) + 1, Min(sl.stop, Len(m)))

\* m[sl] = v, where v has the shape of m[sl]: the rows before, v, the rows after.
SetSlice(m, sl, v) ==
  SubSeq(m, 1, Min(sl.start, Len(m))) \o v \o SubSeq(m, Min(sl.stop, Len(m)) + 1, Len(m))

\* power.copy(): a new array holding the same values.
CopyArray(heap, id) == [heap |-> Append(heap, heap[id]), id |-> Len(heap) + 1]

RECURSIVE CodecLoop(_, _, _, _, _, _)
\* for band, sl in zip(bands, slices): arr[sl] = <dir>_band(arr[sl], band["compression"])
CodecLoop(dir, heap, id, slices, bands, k) ==
  IF k > Min(Len(bands), Len(slices)) THEN [exc |-> "none", heap |-> heap, id |-> id]
  ELSE LET r == IF dir = "encode"
                THEN encode_band(GetSlice(heap[id], slices[k]), bands[k].compression)
                ELSE decode_band(GetSlice(heap[id], slices[k]), bands[k].compression)
       IN IF r.exc # "none" THEN [exc |-> r.exc, heap |-> heap, id |-> 0]
          ELSE CodecLoop(dir, [heap EXCEPT ![id] = SetSlice(heap[id], slices[k], r.val)],
                         id, slices, bands, k + 1)

\* encode_hr without power.copy(): the loop writes into the input array.
encode_hr_InPlace(heap, power, slices, bands) ==
  CodecLoop("encode", heap, power, slices, bands, 1)

encode_hr(heap, power, slices, bands) ==
  LET c == CopyArray(heap, power)
  IN CodecLoop("encode", c.heap, c.id, slices, bands, 1)

decode_hr(heap, encoded, slices, bands) ==
  LET c == CopyArray(heap, encoded)
  IN CodecLoop("decode", c.heap, c.id, slices, bands, 1)

\* ------------------------------------------------------ basis construction
\* librosa.filters.mel(sr, n_fft, n_mels, fmin, fmax, norm="slaney"): n_mels
\* rows, row k the k-th triangular filter between fmin and fmax.  It allocates
\* np.zeros((n_mels, 1 + n_fft // 2)), which raises for a negative n_mels; it
\* does not validate fmin or fmax (an empty filter is only warned about).
librosa_filters_mel(sr, n_fft, n_mels, fmin, fmax) ==
  IF n_mels < 0 THEN Raised("ValueError: negative dimensions are not allowed")
  ELSE Returned([k \in 1..n_mels |->
                   [sr |-> sr, n_fft |-> n_fft, n_mels |-> n_mels,
                    fmin |-> fmin, fmax |-> fmax, k |-> k]])

\* np.vstack(bases): the rows of all the arrays in order; no array is an error.
np_vstack(bases) ==
  LET RECURSIVE Cat(_)
      Cat(k) == IF k > Len(bases) THEN <<>> ELSE bases[k] \o Cat(k + 1)
  IN IF bases = <<>> THEN Raised("ValueError: need at least one array to concatenate")
     ELSE Returned(Cat(1))

\* BasisLoop without "start = end": every range starts at row 0.
RECURSIVE BasisLoop_StartNotAdvanced(_, _, _, _, _, _, _, _)
BasisLoop_StartNotAdvanced(sr, n_fft, fmax, bands, k, bases, slices, start) ==
  IF k > Len(bands) THEN [exc |-> "none", bases |-> bases, slices |-> slices]
  ELSE LET bins == bands[k].bins
           fmin == bands[k].fmin
           fmax_band == Min(bands[k].fmax, fmax)
           basis == librosa_filters_mel(sr, n_fft, bins, fmin, fmax_band)
           end == start + bins
       IN IF basis.exc # "none" THEN [exc |-> basis.exc, bases |-> <<>>, slices |-> <<>>]
          ELSE BasisLoop_StartNotAdvanced(sr, n_fft, fmax, bands, k + 1,
                                          Append(bases, basis.val),
                                          Append(slices, [start |-> start, stop |-> end]),
                                          start)

\* for band in bands: ... (the loop of build_hr_mel_basis, from band k on)
RECURSIVE BasisLoop(_, _, _, _, _, _, _, _)
BasisLoop(sr, n_fft, fmax, bands, k, bases, slices, start) ==
  IF k > Len(bands) THEN [exc |-> "none", bases |-> bases, slices |-> slices]
  ELSE LET bins == bands[k].bins
           fmin == bands[k].fmin
           fmax_band == Min(bands[k].fmax, fmax)
           basis == librosa_filters_mel(sr, n_fft, bins, fmin, fmax_band)
           end == start + bins
       IN IF basis.exc # "none" THEN [exc |-> basis.exc, bases |-> <<>>, slices |-> <<>>]
          ELSE BasisLoop(sr, n_fft, fmax, bands, k + 1, Append(bases, basis.val),
                         Append(slices, [start |-> start, stop |-> end]), end)

build_hr_mel_basis(sr, n_fft, fmax, bands) ==
  LET l == BasisLoop(sr, n_fft, fmax, bands, 1, <<>>, <<>>, 0)
      s == np_vstack(l.bases)
  IN IF l.exc # "none" THEN [exc |-> l.exc, basis |-> <<>>, slices |-> <<>>]
     ELSE IF s.exc # "none" THEN [exc |-> s.exc, basis |-> <<>>, slices |-> <<>>]
     ELSE [exc |-> "none", basis |-> s.val, slices |-> l.slices]

\* The parameter tuples of a filter bank's rows.
FilterParams(rows) ==
  { [sr |-> rows[k].sr, n_mels |-> rows[k].n_mels, fmin |-> rows[k].fmin,
     fmax |-> rows[k].fmax] : k \in 1..Len(rows) }

\* ------------------------------------------------------ spectral front end
\* librosa.stft(y, n_fft, hop_length, win_length), center=True: the shape of
\* the power spectrogram.
StftShape(ylen) == [bins |-> 1 + N_FFT \div 2, frames |-> 1 + ylen \div HOP_LENGTH]

\* basis @ power_spec: one row per basis row, one column per frame.  The
\* values are data of the waveform; element (r, t) is an atom.
Project(basis, frames) ==
  [r \in 1..Len(basis) |-> [t \in 1..frames |-> Atom((r + t) % NumAtoms)]]

\* ------------------------------------------------------------ file system
AUDIO_EXTENSIONS == {".wav", ".mp3", ".flac", ".ogg", ".m4a", ".aac"}

\* Paths that may be found in the input directory.  rank is the path's place
\* in Path's ordering (upper case sorts before lower case); is_file is
\* Path.is_file(), false for a sub-directory.
PathPool ==
  { [name |-> "in/B.WAV",     suffix |-> ".WAV",  is_file |-> TRUE,  rank |-> 1],
    [name |-> "in/README",    suffix |-> "",      is_file |-> TRUE,  rank |-> 2],
    [name |-> "in/a.wav",     suffix |-> ".wav",  is_file |-> TRUE,  rank |-> 3],
    [name |-> "in/c.mp3",     suffix |-> ".mp3",  is_file |-> TRUE,  rank |-> 4],
    [name |-> "in/d.flac",    suffix |-> ".flac", is_file |-> FALSE, rank |-> 5],
    [name |-> "in/notes.txt", suffix |-> ".txt",  is_file |-> TRUE,  rank |-> 6] }

\* str.lower() on the suffixes above.
Lower(suffix) == IF suffix = ".WAV" THEN ".wav" ELSE suffix

\* sorted(paths) that yields the paths in descending order.
RECURSIVE Sorted_Descending(_)
Sorted_Descending(S) ==
  IF S = {} THEN <<>>
  ELSE LET m == CHOOSE p \in S : \A q \in S : p.rank >= q.rank
       IN << m >> \o Sorted_Descending(S \ {m})

\* sorted(paths)
RECURSIVE Sorted(_)
Sorted(S) ==
  IF S = {} THEN <<>>
  ELSE LET m == CHOOSE p \in S : \A q \in S : p.rank <= q.rank
       IN << m >> \o Sorted(S \ {m})

\* collect_audio_files without the "if not files: raise": a directory with no
\* audio file yields an empty list.
collect_audio_files_NoEmptyCheck(input) ==
  IF input.kind = "file" THEN Returned(<< input.path >>)
  ELSE IF input.kind = "dir"
       THEN Returned(Sorted({ p \in input.entries :
                                p.is_file /\ Lower(p.suffix) \in AUDIO_EXTENSIONS }))
  ELSE Raised("FileNotFoundError: Input path not found")

\* input: [kind |-> "missing" | "other" | "file" | "dir", path, entries]
collect_audio_files(input) ==
  IF input.kind = "file" THEN Returned(<< input.path >>)
  ELSE IF input.kind = "dir"
       THEN LET files == Sorted({ p \in input.entries :
                                    p.is_file /\ Lower(p.suffix) \in AUDIO_EXTENSIONS })
            IN IF files = <<>> THEN Raised("FileNotFoundError: No audio files")
               ELSE Returned(files)
  ELSE Raised("FileNotFoundError: Input path not found")

\* ---------------------------------------------------------------- metrics
\* A Python value of a results dict, with its type.
PyInt(n) == [type |-> "int", v |-> n]
PyFloat(n) == [type |-> "float", v |-> n]
PyStr(x) == [type |-> "str", v |-> x]

\* round(n / d, 2) in hundredths: nearest, ties to even.
Round2(n, d) ==
  LET q == (100 * n) \div d
      r == (100 * n) % d
  IN IF 2 * r < d THEN q
     ELSE IF 2 * r > d THEN q + 1
     ELSE IF q % 2 = 0 THEN q ELSE q + 1

\* rel_error(target, approx), in units of 1e-3: a value of the waveform's
\* content c and the representation, never negative.
rel_error(rep, c) ==
  CASE rep = "mel" -> 300 + c
    [] rep = "log_mel" -> 300 + c
    [] rep = "mel_96" -> 250 + 2 * c
    [] rep = "log_mel_96" -> 250 + 2 * c
    [] rep = "hr_mel" -> 200 + 3 * c

\* compressed_size_bytes(array): the length of the compressed archive, which
\* grows with the array's size and depends on its content.
compressed_size_bytes(bins, frames, c) == (bins * frames) \div 64 + 7 * c + 22

\* The bases analyze_audio_file builds: the two uniform ones (fmin defaults to
\* 0) and the HR one.
AnalysisBases(sr_, fmax_) ==
  [mel |-> librosa_filters_mel(sr_, N_FFT, 80, 0, fmax_),
   mel_96 |-> librosa_filters_mel(sr_, N_FFT, 96, 0, fmax_),
   hr |-> build_hr_mel_basis(sr_, N_FFT, fmax_, DEFAULT_BANDS)]

\* analyze_audio_file's summary for a waveform of n samples and content c.
analyze_audio_file(path, target_sr, fmax_, n, c) ==
  LET shape == StftShape(n)
      frames == shape.frames
      b == AnalysisBases(target_sr, fmax_)
      metric(bins, err, note) ==
        [bins |-> PyInt(bins), frames |-> PyInt(frames),
         relative_recon_error |-> PyFloat(err),
         bytes_compressed |-> PyInt(compressed_size_bytes(bins, frames, c)),
         note |-> PyStr(note)]
  IN [input_sr |-> target_sr,
      duration_sec |-> Round2(n, target_sr),
      frames |-> frames,
      n_fft |-> N_FFT, hop_length |-> HOP_LENGTH, win_length |-> WIN_LENGTH,
      fmax |-> fmax_,
      representations |->
        [stft |-> [bins |-> PyInt(shape.bins), frames |-> PyInt(frames),
                   relative_recon_error |-> PyFloat(0),
                   bytes_compressed |->
                     PyInt(compressed_size_bytes(shape.bins, frames, c))],
         mel |-> metric(Len(b.mel.val), rel_error("mel", c), "80-bin mel power"),
         log_mel |-> metric(Len(b.mel.val), rel_error("log_mel", c),
                            "log1p on 80-bin mel power"),
         mel_96 |-> metric(Len(b.mel_96.val), rel_error("mel_96", c),
                          "96-bin mel power (baseline to match HR bins)"),
         log_mel_96 |-> metric(Len(b.mel_96.val), rel_error("log_mel_96", c),
                              "log1p on 96-bin mel power"),
         hr_mel |-> metric(Len(b.hr.basis), rel_error("hr_mel", c),
                          "40/32/24 bins with sqrt-log in the top band")],
      file |-> path.name]

\* The calls of analyze_audio_file to np.linalg.pinv and to rel_error, in
\* program order, with the stft baseline's error also taken from rel_error.
AnalysisCalls_StftThroughRelError(path, k, c) ==
  LET pinv(arg) == [fn |-> "np.linalg.pinv", file |-> path.name, arg |-> arg]
      err(rep, approx, by) ==
        [fn |-> "rel_error", file |-> path.name, target |-> [stft_power |-> k],
         approx |-> [recon |-> approx, pinv_of |-> by], rep |-> rep,
         ret |-> IF rep = "stft" THEN 0 ELSE rel_error(rep, c)]
  IN << err("stft", "stft_power", "none"),
        pinv("mel_basis"),
        err("mel", "mel_recon", "mel_basis"),
        err("log_mel", "mel_log_recon", "mel_basis"),
        pinv("mel96_basis"),
        err("mel_96", "mel96_recon", "mel96_basis"),
        err("log_mel_96", "mel96_log_recon", "mel96_basis"),
        pinv("hr_basis"),
        err("hr_mel", "hr_recon", "hr_basis") >>

\* The calls of analyze_audio_file to np.linalg.pinv and to rel_error, in
\* program order, for the k-th analyzed file (content c).  A rel_error call
\* records its target (the power spectrogram of the k-th file), its approx
\* (the clipped product of a pseudo-inverse, named by the basis inverted, and a
\* representation), the results key its return value is stored under, and the
\* value returned.
AnalysisCalls(path, k, c) ==
  LET pinv(arg) == [fn |-> "np.linalg.pinv", file |-> path.name, arg |-> arg]
      err(rep, approx, by) ==
        [fn |-> "rel_error", file |-> path.name, target |-> [stft_power |-> k],
         approx |-> [recon |-> approx, pinv_of |-> by], rep |-> rep,
         ret |-> rel_error(rep, c)]
  IN << pinv("mel_basis"),
        err("mel", "mel_recon", "mel_basis"),
        err("log_mel", "mel_log_recon", "mel_basis"),
        pinv("mel96_basis"),
        err("mel_96", "mel96_recon", "mel96_basis"),
        err("log_mel_96", "mel96_log_recon", "mel96_basis"),
        pinv("hr_basis"),
        err("hr_mel", "hr_recon", "hr_basis") >>

\* ------------------------------------------------------------- aggregation
RECURSIVE Gcd(_, _)
Gcd(a, b) == IF b = 0 THEN a ELSE Gcd(b, a % b)

\* The rational n / d (d > 0, n >= 0) in lowest terms.
Rat(n, d) == LET g == Gcd(n, d) IN << n \div g, d \div g >>

RECURSIVE SumSeq(_)
SumSeq(xs) == IF xs = <<>> THEN 0 ELSE xs[1] + SumSeq(Tail(xs))

\* np.std(arr): the square root of the mean squared deviation from the mean
\* (divisor N); the value is kept as the rational under the root.
np_std(values) ==
  LET n == Len(values)
      s == SumSeq(values)
      sq == SumSeq([i \in 1..n |-> values[i] * values[i]])
  IN [sqrt_of |-> Rat(n * sq - s * s, n * n)]

np_mean(values) == Rat(SumSeq(values), Len(values))

mean_std(values) == [mean |-> np_mean(values), std |-> np_std(values)]

\* aggregate_results that reads every value from per_file[0] instead of f.
aggregate_results_FirstFileOnly(per_file) ==
  LET n == Len(per_file)
      sample(rep) == per_file[1].representations[rep]
  IN [file_count |-> n,
      duration_sec |-> mean_std([i \in 1..n |-> per_file[1].duration_sec]),
      frames |-> mean_std([i \in 1..n |-> per_file[1].frames]),
      representations |->
        [rep \in DOMAIN per_file[1].representations |->
           [key \in DOMAIN sample(rep) |->
              IF sample(rep)[key].type \in {"int", "float"}
              THEN mean_std([i \in 1..n |-> per_file[1].representations[rep][key].v])
              ELSE sample(rep)[key]]]]

aggregate_results(per_file) ==
  LET n == Len(per_file)
      sample(rep) == per_file[1].representations[rep]
  IN [file_count |-> n,
      duration_sec |-> mean_std([i \in 1..n |-> per_file[i].duration_sec]),
      frames |-> mean_std([i \in 1..n |-> per_file[i].frames]),
      representations |->
        [rep \in DOMAIN per_file[1].representations |->
           [key \in DOMAIN sample(rep) |->
              IF sample(rep)[key].type \in {"int", "float"}
              THEN mean_std([i \in 1..n |-> per_file[i].representations[rep][key].v])
              ELSE sample(rep)[key]]]]

\* ------------------------------------------------------------------ state
VARIABLES
  entry,        \* what was called: "hr_mel", "codec" (build_hr_mel_basis, encode_hr and
                \* decode_hr in turn), "extract" (generate_mel_variants.main) or
                \* "analyze" (analyze_features.main)
  pc,           \* position in the call
  sr,           \* sample rate (the entry points' args.sr / target_sr)
  req_fmax,     \* the requested ceiling: args.fmax, or hr_mel's fmax argument
  fmax,         \* the ceiling in use (hr_mel's parameter, main's local)
  bands,        \* the band set
  ylen,         \* number of samples of the waveform
  input,        \* the entry points' input path as the file system has it
  xrows,        \* rows of the matrix a caller hands to encode_hr
  stft_count,   \* power spectrograms computed so far
  load_count,   \* waveforms loaded so far
  heap,         \* the arrays
  basis, slices,          \* build_hr_mel_basis's latest result
  uniform_params,         \* parameters of the uniform Mel filter banks the analysis built
  hr_params,              \* parameters of the HR filter banks the analysis built
  mel, encoded, decoded,  \* arrays (heap indices, 0: none)
  meta,         \* hr_mel's metadata
  out_dir_created,
  saved,        \* the extraction entry point wrote hr_mel.npz and summary.json
  audio_files,  \* collect_audio_files's result
  per_file,     \* the summaries analyzed so far, in the order they were appended
  report,       \* the analysis report written to analysis.json and printed
  calls,        \* the calls analyze_audio_file made to rel_error and np.linalg.pinv, in order
  error         \* the exception that ended the call, with the function that raised it

vars == << entry, pc, sr, req_fmax, fmax, bands, ylen, input, xrows, stft_count,
           load_count, heap, basis, slices, uniform_params,
           hr_params, mel, encoded, decoded, meta,
           out_dir_created, saved, audio_files, per_file, report, calls, error >>

NoMeta == [n_mels |-> -1]
NoError == [exc |-> "none", at |-> "none"]
NoReport == [written |-> FALSE]
NoPath == [name |-> "", suffix |-> "", is_file |-> FALSE, rank |-> 0]
NoInput == [kind |-> "none", path |-> NoPath, entries |-> {}]

\* The matrix a caller hands to encode_hr: rows x frames non-negative values.
CallerMatrix(rows, frames) ==
  [r \in 1..rows |-> [t \in 1..frames |-> Atom((r + t) % NumAtoms)]]

\* What the input path may be: absent, neither a file nor a directory, a
\* regular file, or a directory holding some of the pool's paths.
InputPaths ==
  { [kind |-> k, path |-> NoPath, entries |-> {}] : k \in {"missing", "other"} }
  \cup { [kind |-> "file", path |-> p, entries |-> {}] : p \in { q \in PathPool : q.is_file } }
  \cup { [kind |-> "dir", path |-> NoPath, entries |-> S] :
           S \in { T \in SUBSET PathPool : Cardinality(T) <= MaxDirEntries } }

Fresh ==
  /\ stft_count = 0 /\ load_count = 0
  /\ heap = <<>> /\ basis = <<>> /\ slices = <<>> /\ uniform_params = {} /\ hr_params = {}
  /\ mel = 0 /\ encoded = 0 /\ decoded = 0
  /\ meta = NoMeta /\ out_dir_created = FALSE /\ saved = FALSE
  /\ audio_files = <<>> /\ per_file = <<>> /\ report = NoReport /\ calls = <<>>
  /\ error = NoError

\* hr_mel(y, sr, fmax, bands) called by a library user; fmax may be defaulted.
InitHrMel ==
  /\ entry = "hr_mel" /\ pc = "hr_mel:stft"
  /\ sr \in SampleRates /\ req_fmax \in FmaxArgs /\ fmax = req_fmax
  /\ bands \in BandSets /\ ylen \in YLens
  /\ input = NoInput /\ xrows = 0
  /\ Fresh

\* build_hr_mel_basis, encode_hr and decode_hr called in turn on a caller's matrix.
InitCodec ==
  /\ entry = "codec" /\ pc = "codec:build"
  /\ sr = DEFAULT_SR /\ req_fmax = DEFAULT_FMAX /\ fmax = req_fmax
  /\ bands \in BandSets /\ ylen \in YLens
  /\ input = NoInput /\ xrows \in 0..MaxRows
  /\ Fresh

\* generate_mel_variants.main(args)
InitExtract ==
  /\ entry = "extract" /\ pc = "extract:main"
  /\ sr \in SampleRates /\ req_fmax \in FmaxArgs /\ fmax = 0
  /\ bands = DEFAULT_BANDS /\ ylen \in YLens
  /\ input \in { i \in InputPaths : i.kind \in {"missing", "file"} } /\ xrows = 0
  /\ Fresh

\* analyze_features.main(args)
InitAnalyze ==
  /\ entry = "analyze" /\ pc = "analyze:main"
  /\ sr \in SampleRates /\ req_fmax \in FmaxArgs /\ fmax = 0
  /\ bands = DEFAULT_BANDS /\ ylen = 0
  /\ input \in InputPaths /\ xrows = 0
  /\ Fresh

Init == InitHrMel \/ InitCodec \/ InitExtract \/ InitAnalyze

Raise(exc, at) == /\ error' = [exc |-> exc, at |-> at]
                  /\ pc' = "raised"

\* ------------------------------------------------------------------ hr_mel
HrMelStft ==
  /\ pc = "hr_mel:stft"
  /\ stft_count' = stft_count + 1
  /\ pc' = "hr_mel:build"
  /\ UNCHANGED << entry, calls, sr, req_fmax, fmax, bands, ylen, input, xrows, load_count, heap,
                  basis, slices, uniform_params, hr_params, mel, encoded, decoded, meta,
                  out_dir_created, saved, audio_files, per_file, report, error >>

\* basis, band_slices = build_hr_mel_basis(...); mel = basis @ power_spec
HrMelBuild ==
  /\ pc = "hr_mel:build"
  /\ \E b \in { build_hr_mel_basis(sr, N_FFT, fmax, bands) } :
        IF b.exc # "none"
        THEN /\ Raise(b.exc, "build_hr_mel_basis")
             /\ UNCHANGED << basis, slices, heap, mel >>
        ELSE /\ basis' = b.basis /\ slices' = b.slices
             /\ heap' = Append(heap, Project(b.basis, StftShape(ylen).frames))
             /\ mel' = Len(heap) + 1
             /\ pc' = "hr_mel:encode"
             /\ error' = error
  /\ UNCHANGED << entry, calls, sr, req_fmax, fmax, bands, ylen, input, xrows, stft_count,
                  load_count, uniform_params, hr_params, encoded, decoded, meta,
                  out_dir_created, saved, audio_files, per_file, report >>

\* Metadata whose range_hz gives each band's own upper edge, not clipped to
\* the ceiling.
HrMelMeta_UnclippedRange(enc) ==
  [n_fft |-> N_FFT, hop_length |-> HOP_LENGTH, win_length |-> WIN_LENGTH,
   n_mels |-> Len(enc),
   bands |-> [i \in 1..Len(bands) |->
                [range_hz |-> << bands[i].fmin, bands[i].fmax >>,
                 bins |-> bands[i].bins, compression |-> bands[i].compression]],
   sr |-> sr, fmax |-> fmax]

HrMelMeta(enc) ==
  [n_fft |-> N_FFT, hop_length |-> HOP_LENGTH, win_length |-> WIN_LENGTH,
   n_mels |-> Len(enc),
   bands |-> [i \in 1..Len(bands) |->
                [range_hz |-> << bands[i].fmin, Min(bands[i].fmax, fmax) >>,
                 bins |-> bands[i].bins, compression |-> bands[i].compression]],
   sr |-> sr, fmax |-> fmax]

\* encoded = encode_hr(mel, band_slices, bands); meta = {...}; return
HrMelEncode ==
  /\ pc = "hr_mel:encode"
  /\ \E e \in { encode_hr(heap, mel, slices, bands) } :
        IF e.exc # "none"
        THEN /\ Raise(e.exc, "encode_band")
             /\ UNCHANGED << heap, encoded, meta >>
        ELSE /\ heap' = e.heap /\ encoded' = e.id
             /\ meta' = HrMelMeta(e.heap[e.id])
             /\ pc' = IF entry = "extract" THEN "extract:save" ELSE "returned"
             /\ error' = error
  /\ UNCHANGED << entry, calls, sr, req_fmax, fmax, bands, ylen, input, xrows, stft_count,
                  load_count, basis, slices, uniform_params, hr_params, mel, decoded,
                  out_dir_created, saved, audio_files, per_file, report >>

\* ------------------------------------------- a caller's encode / decode
CodecBuild ==
  /\ pc = "codec:build"
  /\ \E b \in { build_hr_mel_basis(sr, N_FFT, fmax, bands) } :
        IF b.exc # "none"
        THEN /\ Raise(b.exc, "build_hr_mel_basis")
             /\ UNCHANGED << basis, slices, heap, mel >>
        ELSE /\ basis' = b.basis /\ slices' = b.slices
             /\ heap' = Append(heap, CallerMatrix(xrows, StftShape(ylen).frames))
             /\ mel' = Len(heap) + 1
             /\ pc' = "codec:encode"
             /\ error' = error
  /\ UNCHANGED << entry, calls, sr, req_fmax, fmax, bands, ylen, input, xrows, stft_count,
                  load_count, uniform_params, hr_params, encoded, decoded, meta,
                  out_dir_created, saved, audio_files, per_file, report >>

CodecEncode ==
  /\ pc = "codec:encode"
  /\ \E e \in { encode_hr(heap, mel, slices, bands) } :
        IF e.exc # "none"
        THEN /\ Raise(e.exc, "encode_band")
             /\ UNCHANGED << heap, encoded >>
        ELSE /\ heap' = e.heap /\ encoded' = e.id
             /\ pc' = "codec:decode"
             /\ error' = error
  /\ UNCHANGED << entry, calls, sr, req_fmax, fmax, bands, ylen, input, xrows, stft_count,
                  load_count, basis, slices, uniform_params, hr_params, mel, decoded, meta,
                  out_dir_created, saved, audio_files, per_file, report >>

CodecDecode ==
  /\ pc = "codec:decode"
  /\ \E d \in { decode_hr(heap, encoded, slices, bands) } :
        IF d.exc # "none"
        THEN /\ Raise(d.exc, "decode_band")
             /\ UNCHANGED << heap, decoded >>
        ELSE /\ heap' = d.heap /\ decoded' = d.id
             /\ pc' = "returned"
             /\ error' = error
  /\ UNCHANGED << entry, calls, sr, req_fmax, fmax, bands, ylen, input, xrows, stft_count,
                  load_count, basis, slices, uniform_params, hr_params, mel, encoded, meta,
                  out_dir_created, saved, audio_files, per_file, report >>

\* ------------------------------------------- generate_mel_variants.main
\* The existence check, the clipped ceiling, the output directory, the load.
ExtractMain ==
  /\ pc = "extract:main"
  /\ IF input.kind = "missing"
     THEN /\ Raise("FileNotFoundError: Input file not found", "generate_mel_variants.main")
          /\ UNCHANGED << fmax, out_dir_created, load_count >>
     ELSE /\ fmax' = Min(req_fmax, sr \div 2)
          /\ out_dir_created' = TRUE
          /\ load_count' = load_count + 1
          /\ pc' = "hr_mel:stft"
          /\ error' = error
  /\ UNCHANGED << entry, calls, sr, req_fmax, bands, ylen, input, xrows, stft_count, heap, basis,
                  slices, uniform_params, hr_params, mel, encoded, decoded, meta, saved,
                  audio_files, per_file, report >>

ExtractSave ==
  /\ pc = "extract:save"
  /\ saved' = TRUE
  /\ pc' = "returned"
  /\ UNCHANGED << entry, calls, sr, req_fmax, fmax, bands, ylen, input, xrows, stft_count,
                  load_count, heap, basis, slices, uniform_params, hr_params, mel, encoded,
                  decoded, meta, out_dir_created, audio_files, per_file, report, error >>

\* ------------------------------------------------ analyze_features.main
\* fmax = min(args.fmax, target_sr / 2.0); collect_audio_files; out_dir.mkdir
AnalyzeMain ==
  /\ pc = "analyze:main"
  /\ fmax' = Min(req_fmax, sr \div 2)
  /\ \E c \in { collect_audio_files(input) } :
        IF c.exc # "none"
        THEN /\ Raise(c.exc, "collect_audio_files")
             /\ UNCHANGED << audio_files, out_dir_created >>
        ELSE /\ audio_files' = c.val
             /\ out_dir_created' = TRUE
             /\ pc' = "analyze:per_file"
             /\ error' = error
  /\ UNCHANGED << entry, calls, sr, req_fmax, bands, ylen, input, xrows, stft_count, load_count,
                  heap, basis, slices, uniform_params, hr_params, mel, encoded, decoded,
                  meta, saved, per_file, report >>

\* One iteration of the list comprehension: analyze_audio_file returns the
\* summary of the next file (a waveform of n samples with content c).
AnalyzeFile ==
  /\ pc = "analyze:per_file"
  /\ Len(per_file) < Len(audio_files)
  /\ \E n \in FileLens, c \in 0..(NumContents - 1) :
       LET path == audio_files[Len(per_file) + 1]
           b == AnalysisBases(sr, fmax)
       IN /\ per_file' = Append(per_file, analyze_audio_file(path, sr, fmax, n, c))
          /\ calls' = calls \o AnalysisCalls(path, Len(per_file) + 1, c)
          /\ uniform_params' = uniform_params \cup FilterParams(b.mel.val)
                                 \cup FilterParams(b.mel_96.val)
          /\ hr_params' = hr_params \cup FilterParams(b.hr.basis)
  /\ load_count' = load_count + 1
  /\ stft_count' = stft_count + 1
  /\ UNCHANGED << entry, pc, sr, req_fmax, fmax, bands, ylen, input, xrows, heap, basis,
                  slices, mel, encoded, decoded, meta, out_dir_created, saved, audio_files,
                  report, error >>

\* The places in AnalysisCalls at which np.linalg.pinv is called.
PinvSites == { i \in 1..Len(AnalysisCalls(NoPath, 0, 0)) :
                 AnalysisCalls(NoPath, 0, 0)[i].fn = "np.linalg.pinv" }

\* One iteration of the list comprehension in which analyze_audio_file raises:
\* librosa.load cannot decode the file, or one of the pseudo-inverses fails
\* after the calls before it were made.  Nothing catches the exception, so it
\* ends main.
AnalyzeFileFails ==
  /\ pc = "analyze:per_file"
  /\ Len(per_file) < Len(audio_files)
  /\ \E at \in {"librosa.load", "np.linalg.pinv"} :
       /\ Raise("Exception", at)
       /\ load_count' = IF at = "librosa.load" THEN load_count ELSE load_count + 1
       /\ stft_count' = IF at = "librosa.load" THEN stft_count ELSE stft_count + 1
       /\ IF at = "librosa.load" THEN calls' = calls
          ELSE \E site \in PinvSites, c \in 0..(NumContents - 1) :
                 calls' = calls \o SubSeq(AnalysisCalls(audio_files[Len(per_file) + 1],
                                                        Len(per_file) + 1, c), 1, site)
  /\ UNCHANGED << entry, sr, req_fmax, fmax, bands, ylen, input, xrows, heap, basis,
                  slices, uniform_params, hr_params, mel, encoded, decoded, meta,
                  out_dir_created, saved, audio_files, per_file, report >>

\* A report that carries the aggregate only when several files were analyzed.
AnalysisReport_AggregateOnlyForSeveral ==
  IF Len(per_file) > 1
  THEN [written |-> TRUE,
        settings |-> [target_sr |-> sr, fmax |-> fmax, n_fft |-> N_FFT,
                      hop_length |-> HOP_LENGTH, win_length |-> WIN_LENGTH],
        audio_files |-> [i \in 1..Len(audio_files) |-> audio_files[i].name],
        per_file |-> per_file,
        aggregate |-> aggregate_results(per_file)]
  ELSE [written |-> TRUE,
        settings |-> [target_sr |-> sr, fmax |-> fmax, n_fft |-> N_FFT,
                      hop_length |-> HOP_LENGTH, win_length |-> WIN_LENGTH],
        audio_files |-> [i \in 1..Len(audio_files) |-> audio_files[i].name],
        per_file |-> per_file]

AnalysisReport ==
  [written |-> TRUE,
   settings |-> [target_sr |-> sr, fmax |-> fmax, n_fft |-> N_FFT,
                 hop_length |-> HOP_LENGTH, win_length |-> WIN_LENGTH],
   audio_files |-> [i \in 1..Len(audio_files) |-> audio_files[i].name],
   per_file |-> per_file,
   aggregate |-> aggregate_results(per_file)]

\* The list comprehension as ended by the first result.
AllFilesAnalyzed_AfterFirst == Len(per_file) >= 1

\* The list comprehension over audio_files has run to its end.
AllFilesAnalyzed == Len(per_file) = Len(audio_files)

\* After the last file: aggregate, build the report, write and print it.
AnalyzeReport ==
  /\ pc = "analyze:per_file"
  /\ AllFilesAnalyzed
  /\ report' = AnalysisReport
  /\ pc' = "returned"
  /\ UNCHANGED << entry, calls, sr, req_fmax, fmax, bands, ylen, input, xrows, stft_count,
                  load_count, heap, basis, slices, uniform_params, hr_params, mel, encoded,
                  decoded, meta, out_dir_created, saved, audio_files, per_file, error >>

Next ==
  \/ HrMelStft \/ HrMelBuild \/ HrMelEncode
  \/ CodecBuild \/ CodecEncode \/ CodecDecode
  \/ ExtractMain \/ ExtractSave
  \/ AnalyzeMain \/ AnalyzeFile \/ AnalyzeFileFails \/ AnalyzeReport

Spec == Init /\ [][Next]_vars

\* ================================================================= claims
HasUnknownTag == \E i \in 1..Len(bands) : bands[i].compression \notin VALID_COMPRESSIONS

\* build_hr_mel_basis has returned its result to hr_mel or to the caller.
BuildReturned == mel # 0

\* C1 (as claimed): a band set with a compression tag outside {log1p,
\* sqrt_log1p, pow075} is rejected by build_hr_mel_basis: on every path through
\* hr_mel no power spectrogram has been computed, encode_hr is never entered,
\* and the error that ends the call comes from build_hr_mel_basis.
C1_UnknownTagRejectedAtBuild ==
  (entry = "hr_mel" /\ HasUnknownTag) =>
     /\ stft_count = 0
     /\ pc # "hr_mel:encode"
     /\ (pc = "raised" => error.at = "build_hr_mel_basis")

InvalidBand(b, ceiling) ==
  b.bins <= 0 \/ b.fmin < 0 \/ b.fmin >= Min(b.fmax, ceiling)

HasInvalidBand == \E i \in 1..Len(bands) : InvalidBand(bands[i], fmax)

\* C2 (as claimed): for a band set in which some band has bins <= 0, fmin < 0
\* or fmin >= min(band fmax, global fmax), build_hr_mel_basis signals an error
\* and returns no basis and no row ranges.
C2_InvalidBandRejected ==
  (entry \in {"hr_mel", "codec"} /\ HasInvalidBand) =>
     /\ ~BuildReturned /\ basis = <<>> /\ slices = <<>>
     /\ (pc \notin {"hr_mel:stft", "hr_mel:build", "codec:build"} =>
           pc = "raised" /\ error.at = "build_hr_mel_basis")

RECURSIVE SumBins(_)
SumBins(bs) == IF bs = <<>> THEN 0 ELSE bs[1].bins + SumBins(Tail(bs))

\* Rows (1-based) of the half-open row range [start, stop).
RowsOf(sl) == { r \in 1..sl.stop : sl.start < r }

\* C3: whenever build_hr_mel_basis returns, the basis has as many rows as the
\* bands' bins sum to, there is one row range per band, band i owns
\* [offset_i, offset_i + bins_i) with offset_1 = 0 and each next offset the
\* previous range's end, the ranges are pairwise disjoint and cover exactly the
\* basis rows, and the rows of band i's range are band i's filters.
C3_RowRangesPartitionBasis ==
  BuildReturned =>
     /\ Len(basis) = SumBins(bands)
     /\ Len(slices) = Len(bands)
     /\ \A i \in 1..Len(slices) :
          /\ slices[i].start = (IF i = 1 THEN 0 ELSE slices[i - 1].stop)
          /\ slices[i].stop = slices[i].start + bands[i].bins
          /\ \A r \in RowsOf(slices[i]) :
               /\ basis[r].fmin = bands[i].fmin
               /\ basis[r].n_mels = bands[i].bins
               /\ basis[r].k = r - slices[i].start
     /\ \A i, j \in 1..Len(slices) : i # j => RowsOf(slices[i]) \cap RowsOf(slices[j]) = {}
     /\ UNION { RowsOf(slices[i]) : i \in 1..Len(slices) } = 1..Len(basis)

\* A basis of two bands with rows each, and one holding a band of no rows.
C3_Witness ==
  /\ BuildReturned /\ entry = "hr_mel" /\ Len(bands) = 2
  /\ bands[1].bins = 2 /\ bands[2].bins = 1 /\ Len(basis) = 3

\* The forward and inverse function of each supported tag, on one element.
ForwardOf(tag, x) ==
  CASE tag = "log1p" -> Apply("log1p", x)
    [] tag = "sqrt_log1p" -> Apply("sqrt", Apply("log1p", x))
    [] tag = "pow075" -> Apply("pow075", x)

InverseOf(tag, y) ==
  CASE tag = "log1p" -> Apply("expm1", y)
    [] tag = "sqrt_log1p" -> Apply("expm1", Apply("square", y))
    [] tag = "pow075" -> Apply("pow_inv075", y)

\* The matrix handed to encode_hr, as it was when encode_hr was called.
InputMatrix ==
  IF entry = "codec" THEN CallerMatrix(xrows, StftShape(ylen).frames)
  ELSE Project(basis, StftShape(ylen).frames)

Owned(r) == \E i \in 1..Len(slices) : r \in RowsOf(slices[i])
Owner(r) == CHOOSE i \in 1..Len(slices) : r \in RowsOf(slices[i])

EncodeReturned == encoded # 0
DecodeReturned == decoded # 0

\* C4: once encode_hr has returned, its input array still holds the values it
\* held at the call, the result is another array of the same shape, an element
\* of a row owned by band i is that band's forward function applied once to the
\* input element, and an element of a row owned by no band is the input element.
C4_EncodeCopiesAndMapsOwnedRows ==
  EncodeReturned =>
     LET x == InputMatrix
         y == heap[encoded]
     IN /\ heap[mel] = x
        /\ encoded # mel
        /\ Len(y) = Len(x)
        /\ \A r \in 1..Len(x) :
             /\ Len(y[r]) = Len(x[r])
             /\ \A t \in 1..Len(x[r]) :
                  y[r][t] = IF Owned(r)
                            THEN ForwardOf(bands[Owner(r)].compression, x[r][t])
                            ELSE x[r][t]

\* encode_hr returned for a matrix with a row no band owns and an owned row
\* holding a positive value, which the encoding changed.
C4_Witness ==
  /\ EncodeReturned /\ entry = "codec"
  /\ \E r \in 1..Len(heap[mel]) : ~Owned(r)
  /\ \E r \in 1..Len(heap[mel]) :
       Owned(r) /\ heap[mel][r][1].a # 0 /\ heap[encoded][r][1] # heap[mel][r][1]

\* C5: once decode_hr has returned for the output of encode_hr with the same
\* row ranges and bands, each element of a row owned by a band is the inverse
\* function of that band's tag applied to the encoded element, an element of a
\* row owned by no band is the encoded element, and the decoded matrix holds
\* every element of the matrix that was encoded, zeros included.
C5_DecodeInvertsEncode ==
  DecodeReturned =>
     LET x == heap[mel]
         y == heap[encoded]
         z == heap[decoded]
     IN /\ decoded \notin {mel, encoded}
        /\ Len(z) = Len(x)
        /\ \A r \in 1..Len(x) :
             /\ Len(z[r]) = Len(x[r])
             /\ \A t \in 1..Len(x[r]) :
                  /\ z[r][t] = IF Owned(r)
                               THEN InverseOf(bands[Owner(r)].compression, y[r][t])
                               ELSE y[r][t]
                  /\ z[r][t] = x[r][t]

\* A round trip through a sqrt_log1p band and another tag's band, over a zero
\* and a positive element.
C5_Witness ==
  /\ DecodeReturned
  /\ \E i, j \in 1..Len(bands) :
       /\ bands[i].compression = "sqrt_log1p" /\ bands[j].compression # "sqrt_log1p"
       /\ \E r \in RowsOf(slices[i]) :
            r <= Len(heap[mel]) /\ heap[mel][r][1].a # 0
              /\ heap[encoded][r][1] # heap[mel][r][1]
       /\ \E r \in RowsOf(slices[j]) : r <= Len(heap[mel])
  /\ \E r \in 1..Len(heap[mel]) : Owned(r) /\ heap[mel][r][1] = Atom(0)

Nyquist == sr \div 2
EffectiveCeiling == Min(req_fmax, Nyquist)

\* C6 (as claimed): every basis built by the analysis entry point, by the
\* extraction entry point or by hr_mel uses the ceiling min(fmax, sr / 2), and
\* each band's upper edge is min(band fmax, that ceiling).
C6_CeilingClippedToNyquist ==
  /\ (BuildReturned /\ entry \in {"hr_mel", "extract"}) =>
        \A i \in 1..Len(slices) : \A r \in RowsOf(slices[i]) :
           basis[r].fmax = Min(bands[i].fmax, EffectiveCeiling)
  /\ entry = "analyze" =>
        /\ \A p \in uniform_params : p.fmax = EffectiveCeiling
        /\ \A p \in hr_params :
             \E i \in 1..Len(DEFAULT_BANDS) :
                /\ p.fmin = DEFAULT_BANDS[i].fmin /\ p.n_mels = DEFAULT_BANDS[i].bins
                /\ p.fmax = Min(DEFAULT_BANDS[i].fmax, EffectiveCeiling)

\* A regular file whose extension is, in any letter case, a recognized one.
RecognizedAudio(p) == p.is_file /\ p.suffix \in AUDIO_EXTENSIONS \cup {".WAV"}

NoAudioInput ==
  \/ input.kind = "missing"
  \/ input.kind = "dir" /\ \A p \in input.entries : ~RecognizedAudio(p)

\* C7: when the input path does not exist, or is a directory with no regular
\* file of a recognized audio extension (in any letter case), the analysis
\* ends with the not-found error of collect_audio_files and no waveform is
\* ever loaded nor any spectrogram computed; and when collection does not
\* fail the collected list is not empty.
C7_NoAudioFailsBeforeAnyWork ==
  entry = "analyze" =>
     /\ NoAudioInput =>
          /\ load_count = 0 /\ stft_count = 0 /\ per_file = <<>>
          /\ pc \in {"analyze:main", "raised"}
          /\ pc = "raised" =>
               /\ error.at = "collect_audio_files"
               /\ error.exc \in {"FileNotFoundError: No audio files",
                                 "FileNotFoundError: Input path not found"}
     /\ (pc # "analyze:main" /\ error.at # "collect_audio_files") => audio_files # <<>>

\* The run was given a directory that holds paths, none of them an audio file
\* (one of them a sub-directory named like one), and has failed.
C7_Witness ==
  /\ entry = "analyze" /\ input.kind = "dir" /\ pc = "raised"
  /\ \E p \in input.entries : ~p.is_file /\ p.suffix \in AUDIO_EXTENSIONS
  /\ \E p \in input.entries : p.is_file
  /\ NoAudioInput

FileFailed == error.at \in {"librosa.load", "np.linalg.pinv"}
BatchAborted == pc = "raised" /\ ~report.written

\* C8 (as claimed): in a batch of several files, a failure while loading or
\* analyzing one file does not abort the batch.
C8_FileFailureDoesNotAbortBatch ==
  (entry = "analyze" /\ Len(audio_files) > 1 /\ FileFailed) => ~BatchAborted

Reps == {"stft", "mel", "log_mel", "mel_96", "log_mel_96", "hr_mel"}
NumericKeys == {"bins", "frames", "relative_recon_error", "bytes_compressed"}

\* ms is the arithmetic mean of xs and the population standard deviation of
\* xs: mean = S / N, and std^2 = sum (x - S / N)^2 / N = sum (N x - S)^2 / N^3.
IsMeanStd(ms, xs) ==
  LET n == Len(xs)
      S == SumSeq(xs)
      D == SumSeq([i \in 1..n |-> (n * xs[i] - S) * (n * xs[i] - S)])
  IN /\ DOMAIN ms = {"mean", "std"}
     /\ ms.mean[1] * n = S * ms.mean[2]
     /\ ms.std.sqrt_of[1] * n * n * n = D * ms.std.sqrt_of[2]

\* C9: in a written report the aggregate of the per-file results gives
\* file_count as the number of files, for frames, duration and every numeric
\* metric field of every representation the mean and the population standard
\* deviation of the field over all the files, and for the note a single value
\* that is the note of one of the files.
C9_AggregateIsMeanAndPopulationStd ==
  report.written =>
     LET pf == report.per_file
         n == Len(pf)
         agg == report.aggregate
     IN /\ agg.file_count = n
        /\ IsMeanStd(agg.frames, [i \in 1..n |-> pf[i].frames])
        /\ IsMeanStd(agg.duration_sec, [i \in 1..n |-> pf[i].duration_sec])
        /\ DOMAIN agg.representations = Reps
        /\ \A rep \in Reps :
             /\ DOMAIN agg.representations[rep] = DOMAIN pf[1].representations[rep]
             /\ \A key \in DOMAIN agg.representations[rep] :
                  IF key \in NumericKeys
                  THEN IsMeanStd(agg.representations[rep][key],
                                 [i \in 1..n |-> pf[i].representations[rep][key].v])
                  ELSE agg.representations[rep][key] \in
                         { pf[i].representations[rep][key] : i \in 1..n }

\* A report over three files whose frame counts and error values differ.
C9_Witness ==
  /\ report.written /\ Len(report.per_file) = 3
  /\ \E i, j \in 1..3 :
       /\ report.per_file[i].frames # report.per_file[j].frames
       /\ report.per_file[i].representations.hr_mel.relative_recon_error
            # report.per_file[j].representations.hr_mel.relative_recon_error

HasAggregate == "aggregate" \in DOMAIN report

\* C10 (as claimed): a written report contains the aggregate statistics exactly
\* when more than one file was analyzed.
C10_AggregateOnlyForSeveralFiles ==
  report.written => (HasAggregate <=> Len(report.per_file) > 1)

\* C10 (amended): every written report contains the aggregate statistics, for
\* one analyzed file as for several; for a single file file_count is 1, each
\* mean is the file's own value and each standard deviation is 0.
C10_AggregateInEveryReport ==
  report.written =>
     /\ HasAggregate
     /\ Len(report.per_file) >= 1
     /\ report.aggregate.file_count = Len(report.per_file)
     /\ Len(report.per_file) = 1 =>
          /\ report.aggregate.frames =
               [mean |-> << report.per_file[1].frames, 1 >>, std |-> [sqrt_of |-> << 0, 1 >>]]
          /\ \A rep \in Reps :
               report.aggregate.representations[rep].bytes_compressed =
                 [mean |-> << report.per_file[1].representations[rep].bytes_compressed.v, 1 >>,
                  std |-> [sqrt_of |-> << 0, 1 >>]]

\* A report written by a run over a single file.
C10_Witness == report.written /\ Len(report.per_file) = 1 /\ HasAggregate

\* C11: in the analysis entry point the i-th per-file result is the result of
\* analyzing the i-th collected file (its file field is that path), at every
\* moment the results are those of a prefix of the collected list whatever the
\* lengths of the waveforms, the files collected from a directory are in
\* ascending path order, and a written report lists the files and their results
\* in that same order.
C11_PerFileInInputOrder ==
  entry = "analyze" =>
     /\ Len(per_file) <= Len(audio_files)
     /\ \A i \in 1..Len(per_file) : per_file[i].file = audio_files[i].name
     /\ input.kind = "dir" =>
          /\ \A i, j \in 1..Len(audio_files) :
               i < j => audio_files[i].rank < audio_files[j].rank
          /\ pc # "analyze:main" =>
               { audio_files[i] : i \in 1..Len(audio_files) } \subseteq input.entries
     /\ report.written =>
          /\ Len(report.per_file) = Len(report.audio_files)
          /\ report.audio_files = [i \in 1..Len(audio_files) |-> audio_files[i].name]
          /\ \A i \in 1..Len(report.per_file) :
               report.per_file[i].file = report.audio_files[i]

\* A report over three files of a directory in which an earlier file holds a
\* longer waveform than a later one.
C11_Witness ==
  /\ entry = "analyze" /\ input.kind = "dir" /\ report.written
  /\ Len(report.per_file) = 3
  /\ report.per_file[1].frames > report.per_file[3].frames
  /\ report.per_file[1].file = "in/B.WAV" /\ report.per_file[3].file = "in/c.mp3"

\* The calls to rel_error made while analyzing the file named f.
RelErrorCalls(f) ==
  { k \in 1..Len(calls) : calls[k].file = f /\ calls[k].fn = "rel_error" }

\* The bases whose pseudo-inverse analyze_audio_file has taken for file f.
Inverted(f) ==
  { calls[k].arg : k \in { j \in 1..Len(calls) :
                             calls[j].file = f /\ calls[j].fn = "np.linalg.pinv" } }

\* C12: for every analyzed file the stft entry's relative reconstruction error
\* is the constant 0, no rel_error call stores its result under stft or takes
\* the power spectrogram as its approximation, and no pseudo-inverse is taken
\* of anything but the three Mel bases; every other representation's error is
\* the value returned by exactly one rel_error call, whose target is the power
\* spectrogram of that same file and whose approximation is a product of the
\* pseudo-inverse of a basis inverted before the call.
C12_StftErrorIsSentinel ==
  entry = "analyze" =>
     \A i \in 1..Len(per_file) :
        LET f == per_file[i]
            cs == RelErrorCalls(f.file)
        IN /\ f.representations.stft.relative_recon_error = PyFloat(0)
           /\ \A k \in cs : /\ calls[k].rep # "stft"
                             /\ calls[k].approx.recon # "stft_power"
                             /\ calls[k].target = [stft_power |-> i]
                             /\ calls[k].approx.pinv_of \in Inverted(f.file)
           /\ Inverted(f.file) = {"mel_basis", "mel96_basis", "hr_basis"}
           /\ { calls[k].rep : k \in cs } = Reps \ {"stft"}
           /\ \A rep \in Reps \ {"stft"} :
                /\ Cardinality({ k \in cs : calls[k].rep = rep }) = 1
                /\ \A k \in cs :
                     calls[k].rep = rep =>
                        f.representations[rep].relative_recon_error = PyFloat(calls[k].ret)

\* Two files were analyzed, with different errors for the HR representation.
C12_Witness ==
  /\ entry = "analyze" /\ Len(per_file) = 2
  /\ per_file[1].representations.hr_mel.relative_recon_error
       # per_file[2].representations.hr_mel.relative_recon_error
  /\ per_file[2].representations.stft.relative_recon_error.v = 0
  /\ RelErrorCalls(per_file[2].file) # {}

\* C13: in the analysis entry point a report is written (and printed) only by
\* a run that ended without error after collection succeeded and every
\* collected file was loaded and analyzed, so the written report has one
\* per_file entry per collected file; when collection fails the output
\* directory is not created; and when a file's analysis fails, or the run ends
\* with any error, no report is written.
C13_ReportOnlyAfterAllAnalyzed ==
  entry = "analyze" =>
     /\ report.written =>
          /\ pc = "returned" /\ error = NoError
          /\ out_dir_created /\ audio_files # <<>>
          /\ report.per_file = per_file
          /\ Len(report.per_file) = Len(audio_files)
          /\ Len(report.audio_files) = Len(audio_files)
          /\ load_count = Len(audio_files) /\ stft_count = Len(audio_files)
     /\ error.at = "collect_audio_files" =>
          ~out_dir_created /\ ~report.written /\ per_file = <<>>
     /\ FileFailed => ~report.written /\ pc = "raised" /\ out_dir_created
     /\ pc = "raised" => ~report.written
     /\ pc = "returned" => report.written

\* A report over the two audio files of a directory that also holds a file of
\* another kind.
C13_Witness ==
  /\ entry = "analyze" /\ report.written /\ input.kind = "dir"
  /\ Len(report.per_file) = 2
  /\ \E p \in input.entries : p.is_file /\ ~RecognizedAudio(p)

\* hr_mel has returned its encoded matrix and its metadata.
HrMelReturned == entry \in {"hr_mel", "extract"} /\ meta # NoMeta

\* C14: whenever hr_mel returns, the metadata's n_mels is the row count of the
\* encoded matrix and the sum of the bins of the metadata's bands; the metadata
\* has one entry per band, in band-set order, with that band's bins; each
\* entry's compression is one of log1p, sqrt_log1p, pow075 and is the function
\* that maps the projected rows of the band's range to the encoded ones; and
\* each entry's range_hz is [fmin, min(band fmax, fmax)], the edges the band's
\* filters were built with.
C14_MetadataAgreesWithEncoded ==
  HrMelReturned =>
     /\ encoded # 0
     /\ meta.n_mels = Len(heap[encoded])
     /\ meta.n_mels = SumBins(meta.bands)
     /\ Len(meta.bands) = Len(bands)
     /\ meta.sr = sr /\ meta.fmax = fmax
     /\ \A i \in 1..Len(meta.bands) :
          /\ meta.bands[i].bins = bands[i].bins
          /\ meta.bands[i].compression = bands[i].compression
          /\ meta.bands[i].compression \in VALID_COMPRESSIONS
          /\ meta.bands[i].range_hz = << bands[i].fmin, Min(bands[i].fmax, fmax) >>
          /\ Cardinality(RowsOf(slices[i])) = meta.bands[i].bins
          /\ \A r \in RowsOf(slices[i]) :
               /\ << basis[r].fmin, basis[r].fmax >> = meta.bands[i].range_hz
               /\ \A t \in 1..Len(heap[mel][r]) :
                    heap[encoded][r][t] =
                      ForwardOf(meta.bands[i].compression, heap[mel][r][t])

\* hr_mel returned for two bands of different tags, the second one's upper
\* edge above the ceiling.
C14_Witness ==
  /\ HrMelReturned /\ entry = "hr_mel" /\ pc = "returned"
  /\ Len(bands) = 2 /\ bands[1].compression # bands[2].compression
  /\ bands[1].bins > 0 /\ bands[2].bins > 0
  /\ bands[2].fmax > fmax
  /\ meta.bands[2].range_hz[2] = fmax

====
